---- MODULE Spec2Model ----
(***************************************************************************)
(* Model of the fleet-monitoring agent (a.py): LOAD_NODES, TaskTimer, the  *)
(* three strategies RUN_LOCAL / RUN_SSH_COMMANDS / RUN_NETMIKO_CONFIG,     *)
(* save_log and main's per-node loop.  The program is one sequential       *)
(* thread; pc is its position.  External collaborators (the nodes file,    *)
(* the local shell, the ssh and netmiko libraries, the log file) are the   *)
(* environment: the file content and the local shell's behaviour are fixed *)
(* at Init, the outcome of every remote call and of every log append is    *)
(* chosen when the call is made.                                           *)
(***************************************************************************)
EXTENDS Integers, Sequences, FiniteSets, TLC

VARIABLES fileState, localEnv, nodes, pc, idx, k, stats, exc, client, conn,
          closes, ran, stat, log, all_stats, console, invoked, visited,
          logged, appended

vars == <<fileState, localEnv, nodes, pc, idx, k, stats, exc, client, conn,
          closes, ran, stat, log, all_stats, console, invoked, visited,
          logged, appended>>

(* ---------------------------- bounds ----------------------------------- *)
MaxNodes == 2
MaxCmds == 2

(* ------------------------- python values ------------------------------- *)
\* Python's None, as returned by dict.get for an absent key.
NONE == "None"

\* The command catalog (a.py:18-25), in dict order.
COMMANDS ==
  << [key |-> "hostname",   cmd |-> "hostname"],
     [key |-> "uptime",     cmd |-> "uptime -p"],
     [key |-> "cpu_usage",  cmd |-> "top -bn1 | grep '%Cpu' | awk '{print $2 + $4}'"],
     [key |-> "memory",     cmd |-> "free -m | awk '/Mem:/ {print $2, $3}'"],
     [key |-> "disk",       cmd |-> "df -h / | awk 'NR==2 {print $2, $3, $5}'"],
     [key |-> "ip_address", cmd |-> "hostname -I | awk '{print $1}'"] >>

CatalogKeys == {COMMANDS[i].key : i \in 1..Len(COMMANDS)}

\* dict.get(key, default) on a node mapping: the default when the key is absent.
Get(node, field, default) ==
  IF node[field] = NONE THEN default ELSE node[field]

\* node[key]: present or KeyError.
HasKey(node, field) == node[field] # NONE

(* ------------------------------ nodes ---------------------------------- *)
\* The remote commands a node entry lists under COMMANDS.
Cmds(n) == [i \in 1..n |-> <<"cmd", i>>]

\* An entry of the nodes list that is a mapping.
Mapping(dt, host, user, pw, cmds, cfg) ==
  [isMap |-> TRUE, DEVICE_TYPE |-> dt, HOST_NAME |-> host, USER_NAME |-> user,
   PASSWORD |-> pw, COMMANDS |-> cmds, CONFIG_COMMANDS |-> cfg]

\* An entry that is not a mapping (a YAML scalar, a character of a string,
\* a key of a dict): it has no .get.
NotAMapping ==
  [isMap |-> FALSE, DEVICE_TYPE |-> NONE, HOST_NAME |-> NONE, USER_NAME |-> NONE,
   PASSWORD |-> NONE, COMMANDS |-> <<>>, CONFIG_COMMANDS |-> <<>>]

LocalNodes == { Mapping("local", "pi0", NONE, NONE, <<>>, <<>>) }

SshNodes ==
     { Mapping("ssh", "pi1", "pi", "secret", Cmds(n), <<>>) : n \in 0..MaxCmds }
  \cup { Mapping("ssh", NONE, "pi", "secret", Cmds(MaxCmds), <<>>),
         Mapping("ssh", "pi2", NONE, "secret", Cmds(MaxCmds), <<>>),
         Mapping("ssh", "pi2", "pi", NONE, Cmds(MaxCmds), <<>>) }

ManagedNodes ==
  { Mapping("cisco_ios", "sw1", "admin", "secret", <<>>, <<"conf", "t">>),
    Mapping(NONE, NONE, NONE, NONE, <<>>, <<>>) }

NodeEntries == LocalNodes \cup SshNodes \cup ManagedNodes \cup {NotAMapping}

NodeLists == UNION { [1..n -> NodeEntries] : n \in 0..MaxNodes }

(* --------------------------- the nodes file ---------------------------- *)
\* A Python value LOAD_NODES may hand to main: a list (items are its
\* entries), or None / an int (not iterable), or a str / dict (iterating
\* yields characters / keys, none of which is a mapping).
PyList(items) == [tag |-> "list", items |-> items]
PyNoneVal == [tag |-> "none", items |-> <<>>]
PyInt == [tag |-> "int", items |-> <<>>]
PyStr(n) == [tag |-> "str", items |-> [i \in 1..n |-> NotAMapping]]
PyDict(n) == [tag |-> "dict", items |-> [i \in 1..n |-> NotAMapping]]

\* What yaml.safe_load finds under the "nodes" key of a top-level mapping.
NodesValues ==
  { PyList(l) : l \in NodeLists } \cup
  { PyNoneVal, PyInt, PyStr(0), PyStr(1), PyDict(1) }

File(kind, val) == [kind |-> kind, val |-> val]

\* States of the nodes file: missing; present but unreadable; not YAML; an
\* empty document; a top-level list or scalar; a mapping without "nodes";
\* a mapping with "nodes".
FileStates ==
  { File(kd, PyNoneVal) :
      kd \in {"missing", "unreadable", "bad_yaml", "empty", "top_list",
              "top_scalar", "no_nodes_key"} } \cup
  { File("nodes_key", v) : v \in NodesValues }

\* Whether the file is missing or its structure is not {nodes: [ ... ]}.
Malformed(f) == f.kind # "nodes_key" \/ f.val.tag # "list"

\* LOAD_NODES: [] when the file is missing, when open or yaml.safe_load
\* raises, and when data.get raises (data is None, a list or a scalar);
\* otherwise data.get("nodes", []), whatever that value is.
LOAD_NODES(f) ==
  CASE f.kind = "missing" -> PyList(<<>>)
    [] f.kind \in {"unreadable", "bad_yaml"} -> PyList(<<>>)
    [] f.kind \in {"empty", "top_list", "top_scalar"} -> PyList(<<>>)
    [] f.kind = "no_nodes_key" -> PyList(<<>>)
    [] f.kind = "nodes_key" -> f.val

\* The message LOAD_NODES prints, if any.
LoadMessage(f) ==
  CASE f.kind = "missing" -> <<[kind |-> "load_error", label |-> "not found"]>>
    [] f.kind = "bad_yaml" -> <<[kind |-> "load_error", label |-> "YAML error"]>>
    [] f.kind \in {"unreadable", "empty", "top_list", "top_scalar"} ->
         <<[kind |-> "load_error", label |-> "unexpected error"]>>
    [] OTHER -> <<>>

\* for node in nodes: None and int are not iterable (TypeError).
Iterable(v) == v.tag \in {"list", "str", "dict"}

(* ---------------------- the local shell's behaviour -------------------- *)
\* Characters of a command's raw output.
Whitespace == {" ", "\n"}

RECURSIVE LStrip(_)
LStrip(s) ==
  IF s # <<>> /\ Head(s) \in Whitespace THEN LStrip(Tail(s)) ELSE s

RECURSIVE RStrip(_)
RStrip(s) ==
  IF s # <<>> /\ s[Len(s)] \in Whitespace THEN RStrip(SubSeq(s, 1, Len(s) - 1)) ELSE s

\* str.strip(): drops leading and trailing whitespace.
Strip(s) == LStrip(RStrip(s))

\* subprocess.check_output(cmd, shell=True) either returns the raw output or
\* raises (non-zero exit, spawn failure).
Raised == [ok |-> FALSE, raw |-> <<>>]
Output(raw) == [ok |-> TRUE, raw |-> raw]
RawOutputs == { <<"\n">>, <<"x", "\n">>, <<" ", "x", " ", "y", "\n">> }
ShellOutcomes == {Raised} \cup { Output(r) : r \in RawOutputs }

\* Behaviours of the local shell, per catalog key.
AllLocalEnvs == [CatalogKeys -> ShellOutcomes]

\* The behaviours considered in whole runs of main: every command works,
\* every command fails, some fail.
RunLocalEnvs ==
  { [key \in CatalogKeys |-> Output(<<"x", "\n">>)],
    [key \in CatalogKeys |-> Raised],
    [key \in CatalogKeys |->
       IF key \in {"uptime", "disk"} THEN Raised
       ELSE Output(<<" ", "x", " ", "y", "\n">>)] }

(* ------------------------------ results -------------------------------- *)
\* A stats dict: host, status (absent until set) and the metric keys.  The
\* timestamp is left out.  status is <<>> while the key is absent,
\* <<"success">>, or <<"fail: ", e>> for f"fail: {e}".
NewStats(host) == [host |-> host, status |-> <<>>, metrics |-> <<>>]
Success == <<"success">>
Fail(e) == <<"fail: ", e>>

\* f"Error: {e}"
ErrorValue(e) == <<"Error: ", e>>

\* What a function returns when it falls off its end.
PyNone == [host |-> "null", status |-> <<>>, metrics |-> <<>>]

(* ------------------------------ TaskTimer ------------------------------ *)
Signal(kind, label) == [kind |-> kind, label |-> label]

\* TaskTimer.__enter__: prints "[label] Running...".
TimerEnter(out, label) == Append(out, Signal("running", label))

\* TaskTimer.__exit__: prints the green mark when no exception is passed in,
\* the red mark otherwise.
TimerExit(out, label, e) ==
  Append(out, Signal(IF e = "none" THEN "ok" ELSE "failed", label))

TimerExitSwallows == TRUE

\* The value __exit__ returns decides whether the with statement swallows
\* the exception; it returns None.
TimerExitSuppresses == FALSE

(* ------------------------------- state --------------------------------- *)
\* fileState  the nodes file, localEnv the local shell (environment)
\* nodes      the value LOAD_NODES returned to main
\* pc         position of the single thread; idx the loop's position in nodes
\* k          position of the running strategy in its command list
\* stats      the stats dict of the running strategy; stat main's local
\* exc        the exception in flight ("none" when there is none)
\* client     the paramiko client of the running RUN_SSH_COMMANDS
\* conn       the netmiko connection of the running RUN_NETMIKO_CONFIG
\* closes     client.close() calls of the running RUN_SSH_COMMANDS
\* ran        external calls the running strategy has completed, in order
\* log        lines appended to LOG_FILE by this run; all_stats main's list
\* console    what was printed; invoked the strategies main has called
\* visited    the indexes of the nodes whose loop body was entered
\* logged     for each line of log, the index of the node it came from
\* appended   for each entry of all_stats, the index of its node
Init ==
  /\ fileState \in FileStates
  /\ localEnv \in RunLocalEnvs
  /\ nodes = PyList(<<>>)
  /\ pc = "load"
  /\ idx = 0
  /\ k = 0
  /\ stats = PyNone
  /\ exc = "none"
  /\ client = "none"
  /\ conn = "none"
  /\ closes = 0
  /\ ran = <<>>
  /\ stat = PyNone
  /\ log = <<>>
  /\ all_stats = <<>>
  /\ console = <<>>
  /\ invoked = <<>>
  /\ visited = <<>>
  /\ logged = <<>>
  /\ appended = <<>>

\* The node of the current iteration.
Node == nodes.items[idx]

(* -------------------------------- main --------------------------------- *)
\* main, line 124: nodes = LOAD_NODES(NODES_FILE); all_stats = [].
Load ==
  /\ pc = "load"
  /\ nodes' = LOAD_NODES(fileState)
  /\ console' = console \o LoadMessage(fileState)
  /\ pc' = "for"
  /\ UNCHANGED <<visited, logged, appended, fileState, localEnv, idx, k, stats, exc, client, conn, closes,
                 ran, stat, log, all_stats, invoked>>

\* main, line 127: the for statement takes the next node, ends the loop, or
\* raises TypeError (outside any try) when nodes is not iterable.
ForNode ==
  /\ pc = "for"
  /\ IF ~Iterable(nodes)
       THEN /\ pc' = "crashed"
            /\ exc' = "TypeError"
            /\ UNCHANGED <<idx, visited>>
       ELSE IF idx < Len(nodes.items)
       THEN /\ pc' = "classify"
            /\ idx' = idx + 1
            /\ visited' = Append(visited, idx')
            /\ exc' = exc
       ELSE /\ pc' = "done"
            /\ UNCHANGED <<idx, exc, visited>>
  /\ ran' = <<>>
  /\ UNCHANGED <<logged, appended, fileState, localEnv, nodes, k, stats, client, conn, closes,
                 stat, log, all_stats, console, invoked>>

SelectSshAsManaged(dt) ==
  IF dt = "local" THEN "RUN_LOCAL" ELSE "RUN_NETMIKO_CONFIG"

\* main, lines 129-134: the strategy for a DEVICE_TYPE.
Select(dt) ==
  IF dt = "local" THEN "RUN_LOCAL"
  ELSE IF dt = "ssh" THEN "RUN_SSH_COMMANDS"
  ELSE "RUN_NETMIKO_CONFIG"

\* main, lines 129-134: node.get("DEVICE_TYPE") raises AttributeError when
\* the entry is not a mapping; otherwise the selected strategy is called.
Classify ==
  /\ pc = "classify"
  /\ IF ~Node.isMap
       THEN /\ exc' = "AttributeError"
            /\ pc' = "except"
            /\ invoked' = invoked
       ELSE /\ pc' = Select(Get(Node, "DEVICE_TYPE", NONE))
            /\ invoked' = Append(invoked, [node |-> idx, strategy |-> pc'])
            /\ exc' = exc
  /\ UNCHANGED <<visited, logged, appended, fileState, localEnv, nodes, idx, k, stats, client, conn, closes,
                 ran, stat, log, all_stats, console>>

ListPrepend(l, x) == <<x>> \o l

\* list.append, and a write to a file opened in append mode: at the end.
ListAppend(l, x) == Append(l, x)

SinkFailureEscapes == "crashed"

\* save_log(stat) is called inside main's try (lines 128-137): an exception
\* it raises goes to the handler of line 137.
SinkFailureTarget == "except"

\* save_log, lines 117-119: the line is appended, or open/write raises.
SaveLog ==
  /\ pc = "save_log"
  /\ \E ok \in BOOLEAN :
       IF ok
         THEN /\ log' = ListAppend(log, stat)
              /\ logged' = ListAppend(logged, idx)
              /\ pc' = "append"
              /\ exc' = exc
         ELSE /\ exc' = "OSError"
              /\ pc' = SinkFailureTarget
              /\ UNCHANGED <<log, logged>>
  /\ UNCHANGED <<visited, appended, fileState, localEnv, nodes, idx, k, stats, client, conn, closes,
                 ran, stat, all_stats, console, invoked>>

\* main, line 136: all_stats.append(stat).
AppendStats ==
  /\ pc = "append"
  /\ all_stats' = ListAppend(all_stats, stat)
  /\ appended' = ListAppend(appended, idx)
  /\ pc' = "for"
  /\ UNCHANGED <<visited, logged, fileState, localEnv, nodes, idx, k, stats, exc, client, conn,
                 closes, ran, stat, log, console, invoked>>

HandlerNoticeNamesUser(node) == Signal("notice", Get(node, "USER_NAME", NONE))

\* main, line 138: the notice names node.get('HOST_NAME').
HandlerNotice(node) == Signal("notice", Get(node, "HOST_NAME", NONE))

AfterHandlerBreaks == "done"

\* Where main goes after the handler of line 138 has printed its notice.
AfterHandler == "for"

\* main, lines 137-138: except Exception prints the notice naming
\* node.get('HOST_NAME'); that call raises AttributeError, inside the
\* handler, when the entry is not a mapping.
Except ==
  /\ pc = "except"
  /\ IF Node.isMap
       THEN /\ console' = Append(console, HandlerNotice(Node))
            /\ exc' = "none"
            /\ pc' = AfterHandler
       ELSE /\ exc' = "AttributeError"
            /\ pc' = "crashed"
            /\ console' = console
  /\ UNCHANGED <<visited, logged, appended, fileState, localEnv, nodes, idx, k, stats, client, conn, closes,
                 ran, stat, log, all_stats, invoked>>

(* ---------------------------- the with block --------------------------- *)
\* Leaving "with TaskTimer(label):" at the end of a strategy: __exit__
\* prints its mark; without an exception the strategy returns stats to
\* main; with one, the exception goes on to main's handler unless __exit__
\* suppressed it (then the function falls off its end and returns None).
\* A with statement whose body hands the fail record on instead of raising.
LeaveTimerReturnsFailRecord(label) ==
  /\ console' = TimerExit(console, label, exc)
  /\ stat' = stats
  /\ pc' = "save_log"
  /\ exc' = "none"

LeaveTimer(label) ==
  /\ console' = TimerExit(console, label, exc)
  /\ IF exc = "none"
       THEN /\ stat' = stats
            /\ pc' = "save_log"
            /\ exc' = exc
       ELSE IF TimerExitSuppresses
       THEN /\ stat' = PyNone
            /\ pc' = "save_log"
            /\ exc' = "none"
       ELSE /\ pc' = "except"
            /\ UNCHANGED <<stat, exc>>

(* ------------------------------ RUN_LOCAL ------------------------------ *)
\* socket.gethostname()
LocalHostName == "thishost"

\* RUN_LOCAL, lines 104-105.
LocalEnter ==
  /\ pc = "RUN_LOCAL"
  /\ console' = TimerEnter(console, "Localhost")
  /\ stats' = NewStats(LocalHostName)
  /\ k' = 1
  /\ pc' = "local_cmd"
  /\ UNCHANGED <<visited, logged, appended, fileState, localEnv, nodes, idx, exc, client, conn, closes,
                 ran, stat, log, all_stats, invoked>>

MetricValueUntrimmed(outcome) ==
  IF outcome.ok THEN outcome.raw ELSE ErrorValue("CalledProcessError")

\* RUN_LOCAL, lines 107-111: the value stored under a key.
MetricValue(outcome) ==
  IF outcome.ok THEN Strip(outcome.raw) ELSE ErrorValue("CalledProcessError")

\* RUN_LOCAL, lines 106-111: one iteration of the loop over COMMANDS; the
\* except clause keeps a failure inside the iteration.
LocalCmd ==
  /\ pc = "local_cmd"
  /\ k <= Len(COMMANDS)
  /\ LET key == COMMANDS[k].key IN
       /\ stats' = [stats EXCEPT !.metrics = (key :> MetricValue(localEnv[key])) @@ @]
       /\ ran' = Append(ran, <<"run", key>>)
  /\ k' = k + 1
  /\ UNCHANGED <<visited, logged, appended, fileState, localEnv, nodes, pc, idx, exc, client, conn, closes,
                 stat, log, all_stats, console, invoked>>

\* RUN_LOCAL, lines 112-113, and TaskTimer.__exit__.
LocalReturn ==
  /\ pc = "local_cmd"
  /\ k > Len(COMMANDS)
  /\ stats' = [stats EXCEPT !.status = Success]
  /\ console' = TimerExit(console, "Localhost", exc)
  /\ stat' = stats'
  /\ pc' = "save_log"
  /\ UNCHANGED <<visited, logged, appended, fileState, localEnv, nodes, idx, k, exc, client, conn, closes,
                 ran, log, all_stats, invoked>>

(* --------------------------- RUN_SSH_COMMANDS -------------------------- *)
SshLabel == Get(Node, "HOST_NAME", "SSH Node")

\* RUN_SSH_COMMANDS, lines 63-66.
SshEnter ==
  /\ pc = "RUN_SSH_COMMANDS"
  /\ console' = TimerEnter(console, SshLabel)
  /\ client' = "new"
  /\ closes' = 0
  /\ stats' = NewStats(Get(Node, "HOST_NAME", "unknown"))
  /\ k' = 1
  /\ pc' = "ssh_connect"
  /\ UNCHANGED <<visited, logged, appended, fileState, localEnv, nodes, idx, exc, conn, ran, stat, log,
                 all_stats, invoked>>

\* RUN_SSH_COMMANDS, line 68: node["HOST_NAME"], node["USER_NAME"] and
\* node["PASSWORD"] raise KeyError when absent; connect succeeds or raises.
SshConnect ==
  /\ pc = "ssh_connect"
  /\ IF \E f \in {"HOST_NAME", "USER_NAME", "PASSWORD"} : ~HasKey(Node, f)
       THEN /\ exc' = "KeyError"
            /\ pc' = "ssh_except"
            /\ UNCHANGED <<client, ran>>
       ELSE \E ok \in BOOLEAN :
              IF ok
                THEN /\ client' = "connected"
                     /\ ran' = Append(ran, <<"connect">>)
                     /\ pc' = "ssh_cmd"
                     /\ exc' = exc
                ELSE /\ exc' = "SSHException"
                     /\ pc' = "ssh_except"
                     /\ UNCHANGED <<client, ran>>
  /\ UNCHANGED <<visited, logged, appended, fileState, localEnv, nodes, idx, k, stats, conn, closes, stat,
                 log, all_stats, console, invoked>>

CommandAtReversed(cmds, i) == cmds[Len(cmds) + 1 - i]

\* RUN_SSH_COMMANDS, line 69: the i-th command the for loop takes.
CommandAt(cmds, i) == cmds[i]

\* RUN_SSH_COMMANDS, lines 69-70: client.exec_command(cmd) starts the next
\* command or raises.
SshExec ==
  /\ pc = "ssh_cmd"
  /\ k <= Len(Node.COMMANDS)
  /\ \E ok \in BOOLEAN :
       IF ok
         THEN /\ ran' = Append(ran, <<"exec", CommandAt(Node.COMMANDS, k)>>)
              /\ pc' = "ssh_wait"
              /\ exc' = exc
         ELSE /\ exc' = "SSHException"
              /\ pc' = "ssh_except"
              /\ ran' = ran
  /\ UNCHANGED <<visited, logged, appended, fileState, localEnv, nodes, idx, k, stats, client, conn, closes,
                 stat, log, all_stats, console, invoked>>

\* Remote exit codes.
ExitCodes == {0, 1}

NonZeroExitRaises(code) == code # 0

\* RUN_SSH_COMMANDS, line 71: the value of recv_exit_status() is not looked
\* at, so no exit code makes the line raise.
ExitStatusRaises(code) == FALSE

\* RUN_SSH_COMMANDS, line 71: recv_exit_status() returns the command's exit
\* code, which is dropped, or raises.
SshWait ==
  /\ pc = "ssh_wait"
  /\ \/ \E code \in ExitCodes :
          /\ ran' = Append(ran, <<"exit", CommandAt(Node.COMMANDS, k), code>>)
          /\ IF ExitStatusRaises(code)
               THEN /\ exc' = "SSHException"
                    /\ pc' = "ssh_except"
                    /\ k' = k
               ELSE /\ k' = k + 1
                    /\ pc' = "ssh_cmd"
                    /\ exc' = exc
     \/ /\ exc' = "SSHException"
        /\ pc' = "ssh_except"
        /\ UNCHANGED <<ran, k>>
  /\ UNCHANGED <<visited, logged, appended, fileState, localEnv, nodes, idx, stats, client, conn, closes,
                 stat, log, all_stats, console, invoked>>

\* RUN_SSH_COMMANDS, line 72.
SshSuccess ==
  /\ pc = "ssh_cmd"
  /\ k > Len(Node.COMMANDS)
  /\ stats' = [stats EXCEPT !.status = Success]
  /\ pc' = "ssh_finally"
  /\ UNCHANGED <<visited, logged, appended, fileState, localEnv, nodes, idx, k, exc, client, conn, closes,
                 ran, stat, log, all_stats, console, invoked>>

AfterSshExceptSkipsClose == "ssh_exit"

\* The re-raise of line 75 runs the finally clause of lines 76-77 first.
AfterSshExcept == "ssh_finally"

\* RUN_SSH_COMMANDS, lines 73-75: record, then re-raise.
SshExcept ==
  /\ pc = "ssh_except"
  /\ stats' = [stats EXCEPT !.status = Fail(exc)]
  /\ pc' = AfterSshExcept
  /\ UNCHANGED <<visited, logged, appended, fileState, localEnv, nodes, idx, k, exc, client, conn, closes,
                 ran, stat, log, all_stats, console, invoked>>

\* RUN_SSH_COMMANDS, lines 76-77: finally: client.close().
SshFinally ==
  /\ pc = "ssh_finally"
  /\ client' = "closed"
  /\ closes' = closes + 1
  /\ pc' = "ssh_exit"
  /\ UNCHANGED <<visited, logged, appended, fileState, localEnv, nodes, idx, k, stats, exc, conn, ran, stat,
                 log, all_stats, console, invoked>>

\* RUN_SSH_COMMANDS, line 78 and TaskTimer.__exit__.
SshExit ==
  /\ pc = "ssh_exit"
  /\ LeaveTimer(SshLabel)
  /\ UNCHANGED <<visited, logged, appended, fileState, localEnv, nodes, idx, k, stats, client, conn, closes,
                 ran, log, all_stats, invoked>>

(* -------------------------- RUN_NETMIKO_CONFIG ------------------------- *)
NmLabel == Get(Node, "HOST_NAME", "Netmiko Node")

\* RUN_NETMIKO_CONFIG, lines 83-90.
NmEnter ==
  /\ pc = "RUN_NETMIKO_CONFIG"
  /\ console' = TimerEnter(console, NmLabel)
  /\ stats' = NewStats(Get(Node, "HOST_NAME", "unknown"))
  /\ conn' = "none"
  /\ pc' = "nm_connect"
  /\ UNCHANGED <<visited, logged, appended, fileState, localEnv, nodes, idx, k, exc, client, closes, ran,
                 stat, log, all_stats, invoked>>

\* One call of the try block of RUN_NETMIKO_CONFIG: it completes, and the
\* thread goes on to next, or it raises.
NmCall(at, call, next, connAfter) ==
  /\ pc = at
  /\ \E ok \in BOOLEAN :
       IF ok
         THEN /\ ran' = Append(ran, call)
              /\ conn' = connAfter
              /\ pc' = next
              /\ exc' = exc
         ELSE /\ exc' = "NetmikoException"
              /\ pc' = "nm_except"
              /\ UNCHANGED <<ran, conn>>
  /\ UNCHANGED <<visited, logged, appended, fileState, localEnv, nodes, idx, k, stats, client, closes, stat,
                 log, all_stats, console, invoked>>

\* RUN_NETMIKO_CONFIG, line 92: ConnectHandler(**device).
NmConnect == NmCall("nm_connect", <<"connect">>, "nm_send", "open")

\* RUN_NETMIKO_CONFIG, line 93: the whole CONFIG_COMMANDS list in one call.
NmSend ==
  NmCall("nm_send", <<"send_config_set", Node.CONFIG_COMMANDS>>, "nm_save", conn)

\* A managed strategy that disconnects without saving the configuration.
NmSaveSkipped == NmCall("nm_save", <<"disconnect">>, "nm_success", "closed")

\* RUN_NETMIKO_CONFIG, line 94.
NmSave == NmCall("nm_save", <<"save_config">>, "nm_disconnect", conn)

\* RUN_NETMIKO_CONFIG, line 95.
NmDisconnect == NmCall("nm_disconnect", <<"disconnect">>, "nm_success", "closed")

\* RUN_NETMIKO_CONFIG, line 96.
NmSuccess ==
  /\ pc = "nm_success"
  /\ stats' = [stats EXCEPT !.status = Success]
  /\ pc' = "nm_exit"
  /\ UNCHANGED <<visited, logged, appended, fileState, localEnv, nodes, idx, k, exc, client, conn, closes,
                 ran, stat, log, all_stats, console, invoked>>

\* RUN_NETMIKO_CONFIG, lines 97-99: record, then re-raise.
NmExcept ==
  /\ pc = "nm_except"
  /\ stats' = [stats EXCEPT !.status = Fail(exc)]
  /\ pc' = "nm_exit"
  /\ UNCHANGED <<visited, logged, appended, fileState, localEnv, nodes, idx, k, exc, client, conn, closes,
                 ran, stat, log, all_stats, console, invoked>>

\* RUN_NETMIKO_CONFIG, line 100 and TaskTimer.__exit__.
NmExit ==
  /\ pc = "nm_exit"
  /\ LeaveTimer(NmLabel)
  /\ UNCHANGED <<visited, logged, appended, fileState, localEnv, nodes, idx, k, stats, client, conn, closes,
                 ran, log, all_stats, invoked>>

(* --------------------------- specifications ---------------------------- *)
Next ==
  \/ Load
  \/ ForNode
  \/ Classify
  \/ LocalEnter
  \/ LocalCmd
  \/ LocalReturn
  \/ SshEnter
  \/ SshConnect
  \/ SshExec
  \/ SshWait
  \/ SshSuccess
  \/ SshExcept
  \/ SshFinally
  \/ SshExit
  \/ NmEnter
  \/ NmConnect
  \/ NmSend
  \/ NmSave
  \/ NmDisconnect
  \/ NmSuccess
  \/ NmExcept
  \/ NmExit
  \/ SaveLog
  \/ AppendStats
  \/ Except

Spec == Init /\ [][Next]_vars

\* The thread is never suspended for ever: every call of the model returns
\* or raises (the libraries' timeouts, spec section 5).
FairSpec == Spec /\ WF_vars(Next)

\* RUN_LOCAL on its own, called for a local node, under every behaviour of
\* the local shell.
InitLocal ==
  /\ fileState \in { File("nodes_key", PyList(<<n>>)) : n \in LocalNodes }
  /\ localEnv \in AllLocalEnvs
  /\ nodes = LOAD_NODES(fileState)
  /\ pc = "RUN_LOCAL"
  /\ idx = 1
  /\ k = 0
  /\ stats = PyNone
  /\ exc = "none"
  /\ client = "none"
  /\ conn = "none"
  /\ closes = 0
  /\ ran = <<>>
  /\ stat = PyNone
  /\ log = <<>>
  /\ all_stats = <<>>
  /\ console = <<>>
  /\ invoked = <<[node |-> 1, strategy |-> "RUN_LOCAL"]>>
  /\ visited = <<1>>
  /\ logged = <<>>
  /\ appended = <<>>

NextLocal == LocalEnter \/ LocalCmd \/ LocalReturn

SpecLocal == InitLocal /\ [][NextLocal]_vars

(* ------------------------------- claims -------------------------------- *)
\* A status beginning "fail:", a metric value beginning "Error:".
BeginsWithFail(st) == Len(st) >= 1 /\ st[1] = "fail: "
BeginsWithError(v) == Len(v) >= 1 /\ v[1] = "Error: "

\* Exceptions raised inside a strategy (as opposed to main's own code or
\* save_log).
StrategyExcs == {"KeyError", "SSHException", "NetmikoException"}

\* The notice main prints for the current node.
NoticeForNode == Signal("notice", Get(Node, "HOST_NAME", NONE))

\* The loaded value is a list whose entries are all mappings, so that every
\* node reaches a strategy.
OnlyMappings ==
  LET v == LOAD_NODES(fileState) IN
    v.tag = "list" /\ \A i \in 1..Len(v.items) : v.items[i].isMap

C2_FailRecordLogged ==
  (pc = "except" /\ exc \in StrategyExcs) =>
    /\ BeginsWithFail(stats.status)
    /\ Cardinality({j \in 1..Len(log) :
                      logged[j] = idx /\ BeginsWithFail(log[j].status)}) = 1

\* C3 (as claimed): a save_log failure leaves the per-node loop instead of
\* going to the per-node handler.
C3_SinkFailurePropagates ==
  [][(pc = "save_log" /\ exc' = "OSError") => pc' = "crashed"]_vars

\* C3 (amended): a save_log failure for a node whose strategy succeeded is
\* caught by the same per-node handler as a strategy failure: nothing is
\* added to the log or to all_stats for that node, the notice naming the
\* node is printed and the loop goes on.
C3_SinkFailureIsolated ==
  [][/\ (pc = "save_log" /\ exc' = "OSError") =>
          /\ pc' = "except"
          /\ log' = log
          /\ all_stats' = all_stats
     /\ (pc = "except" /\ exc = "OSError") =>
          /\ pc' = "for"
          /\ idx' = idx
          /\ exc' = "none"
          /\ console' = Append(console, NoticeForNode)
          /\ log' = log
          /\ all_stats' = all_stats]_vars

\* The first node's strategy succeeded, its save_log failed (a success mark
\* followed by a notice), nothing was recorded, and main is at node 2.
C3_Witness ==
  /\ pc = "classify"
  /\ idx = 2
  /\ Len(console) = 3
  /\ console[2].kind = "ok"
  /\ console[3] = Signal("notice", nodes.items[1].HOST_NAME)
  /\ log = <<>>
  /\ all_stats = <<>>

\* C4 (as claimed): LOAD_NODES always hands main a sequence, empty when the
\* file is missing or malformed, and main's for statement never fails.
C4_LoadNodesTotal ==
  pc # "load" =>
    /\ nodes.tag = "list"
    /\ Malformed(fileState) => nodes.items = <<>>
    /\ ~(pc = "crashed" /\ exc = "TypeError")

\* C5 (as claimed): whatever the entries of a nodes list are, no exception
\* escapes main's per-node handling.
C5_MalformedEntryHandled ==
  nodes.tag = "list" => pc # "crashed"

\* Positions inside each strategy.
LocalPcs == {"RUN_LOCAL", "local_cmd"}
SshPcs == {"RUN_SSH_COMMANDS", "ssh_connect", "ssh_cmd", "ssh_wait",
           "ssh_except", "ssh_finally", "ssh_exit"}
NmPcs == {"RUN_NETMIKO_CONFIG", "nm_connect", "nm_send", "nm_save",
          "nm_disconnect", "nm_success", "nm_except", "nm_exit"}

\* The nodes whose classification (lines 129-134) is over.
Classified ==
  {i \in 1..idx : i < idx \/ pc # "classify"}

\* C6: the strategy called for a node is decided by its DEVICE_TYPE alone:
\* "local" gives RUN_LOCAL, "ssh" gives RUN_SSH_COMMANDS, anything else
\* (absent included) gives RUN_NETMIKO_CONFIG; every classified node that is
\* a mapping has had exactly one strategy called, and the thread is inside
\* a strategy only if that strategy is the one called for the current node.
C6_StrategyByDeviceType ==
  /\ \A j \in 1..Len(invoked) :
       LET n == nodes.items[invoked[j].node] IN
         /\ n.isMap
         /\ n.DEVICE_TYPE = "local" => invoked[j].strategy = "RUN_LOCAL"
         /\ n.DEVICE_TYPE = "ssh" => invoked[j].strategy = "RUN_SSH_COMMANDS"
         /\ n.DEVICE_TYPE \notin {"local", "ssh"} =>
              invoked[j].strategy = "RUN_NETMIKO_CONFIG"
  /\ \A i \in Classified :
       nodes.items[i].isMap =>
         Cardinality({j \in 1..Len(invoked) : invoked[j].node = i}) = 1
  /\ \A j \in 1..Len(invoked) : invoked[j].node \in Classified
  /\ pc \in LocalPcs \cup SshPcs \cup NmPcs =>
       /\ invoked # <<>>
       /\ invoked[Len(invoked)].node = idx
       /\ pc \in LocalPcs => invoked[Len(invoked)].strategy = "RUN_LOCAL"
       /\ pc \in SshPcs => invoked[Len(invoked)].strategy = "RUN_SSH_COMMANDS"
       /\ pc \in NmPcs => invoked[Len(invoked)].strategy = "RUN_NETMIKO_CONFIG"

\* A node without DEVICE_TYPE went to RUN_NETMIKO_CONFIG and the ssh node
\* after it to RUN_SSH_COMMANDS.
C6_Witness ==
  /\ pc = "done"
  /\ Len(invoked) = 2
  /\ nodes.items[1].DEVICE_TYPE = NONE
  /\ invoked[1] = [node |-> 1, strategy |-> "RUN_NETMIKO_CONFIG"]
  /\ nodes.items[2].DEVICE_TYPE = "ssh"
  /\ invoked[2] = [node |-> 2, strategy |-> "RUN_SSH_COMMANDS"]

\* v is raw without its leading and trailing whitespace.
IsTrimOf(v, raw) ==
  \E a \in 0..Len(raw) :
    /\ a + Len(v) <= Len(raw)
    /\ v = SubSeq(raw, a + 1, a + Len(v))
    /\ \A i \in 1..Len(raw) : (i <= a \/ i > a + Len(v)) => raw[i] \in Whitespace
    /\ v # <<>> => (v[1] \notin Whitespace /\ v[Len(v)] \notin Whitespace)

\* The strategy called for the current node is RUN_LOCAL.
InLocalDispatch ==
  /\ invoked # <<>>
  /\ invoked[Len(invoked)] = [node |-> idx, strategy |-> "RUN_LOCAL"]

\* C7: whichever of the six catalog commands fail, RUN_LOCAL raises nothing
\* and returns status success; every command is run, in catalog order, also
\* after a failing one; and the result holds, under each of the six keys,
\* the trimmed output of a command that succeeded and a string beginning
\* "Error:" for one that failed.
C7_LocalPartialFailure ==
  /\ [](pc \in LocalPcs => exc = "none")
  /\ [][(pc \in LocalPcs) => (pc' \in LocalPcs \/ pc' = "save_log")]_vars
  /\ []((pc = "local_cmd") =>
          /\ ran = [i \in 1..(k - 1) |-> <<"run", COMMANDS[i].key>>]
          /\ DOMAIN stats.metrics = {COMMANDS[i].key : i \in 1..(k - 1)})
  /\ []((pc = "save_log" /\ InLocalDispatch) =>
          /\ stat.status = <<"success">>
          /\ Len(ran) = 6
          /\ DOMAIN stat.metrics =
               {"hostname", "uptime", "cpu_usage", "memory", "disk", "ip_address"}
          /\ \A key \in DOMAIN stat.metrics :
               IF localEnv[key].ok
                 THEN IsTrimOf(stat.metrics[key], localEnv[key].raw)
                 ELSE BeginsWithError(stat.metrics[key]))

\* RUN_LOCAL has returned success although uptime failed; disk, which comes
\* later in the catalog, holds its trimmed output.
C7_Witness ==
  /\ pc = "save_log"
  /\ stat.status = <<"success">>
  /\ ~localEnv["uptime"].ok
  /\ BeginsWithError(stat.metrics["uptime"])
  /\ localEnv["disk"].raw = <<" ", "x", " ", "y", "\n">>
  /\ stat.metrics["disk"] = <<"x", " ", "y">>

\* The signals TaskTimer printed, in order.
IsTimerSignal(sig) == sig.kind \in {"running", "ok", "failed"}
TimerSignals == SelectSeq(console, IsTimerSignal)

\* Positions at which a strategy has been called but has not yet entered
\* its with block, and positions inside the with block.
EntryPcs == {"RUN_LOCAL", "RUN_SSH_COMMANDS", "RUN_NETMIKO_CONFIG"}
InTimer == pc \in (LocalPcs \cup SshPcs \cup NmPcs) \ EntryPcs

\* C8: every use of TaskTimer prints the running indicator once, before any
\* of the wrapped work, and one exit indicator with the same label when the
\* work ends: the success mark when the work returned, the failure mark when
\* it raised; an exception of the wrapped work is not swallowed: it arrives,
\* unchanged, at the caller of the strategy (main's handler), and without an
\* exception the strategy returns its stats.
C8_TimerOnlyObserves ==
  /\ [](LET T == TimerSignals IN
          /\ \A j \in 1..Len(T) :
               IF j % 2 = 1
                 THEN T[j].kind = "running"
                 ELSE T[j].kind \in {"ok", "failed"} /\ T[j].label = T[j - 1].label
          /\ Len(T) = IF pc \in EntryPcs THEN 2 * (Len(invoked) - 1)
                      ELSE IF InTimer THEN 2 * Len(invoked) - 1
                      ELSE 2 * Len(invoked)
          /\ pc \in EntryPcs => ran = <<>>)
  /\ [][(InTimer /\ ~InTimer') =>
          /\ console' = Append(console,
               Signal(IF exc = "none" THEN "ok" ELSE "failed",
                      TimerSignals[Len(TimerSignals)].label))
          /\ exc # "none" => (pc' = "except" /\ exc' = exc)
          /\ exc = "none" => (pc' = "save_log" /\ stat' = stats')]_vars

\* The failure mark has been printed and the exception of the wrapped work
\* is at main's handler.
C8_Witness ==
  /\ pc = "except"
  /\ exc = "SSHException"
  /\ console # <<>>
  /\ console[Len(console)] = Signal("failed", Get(Node, "HOST_NAME", "SSH Node"))

\* C9: RUN_SSH_COMMANDS closes its client exactly once on every path: no
\* close before the finally clause, one close when the function is left
\* (after success, after a failed connect, after a failed command), and no
\* client is open while the thread is outside RUN_SSH_COMMANDS.
C9_SessionClosedOnce ==
  /\ pc \in {"ssh_connect", "ssh_cmd", "ssh_wait", "ssh_except", "ssh_finally"} =>
       (closes = 0 /\ client \in {"new", "connected"})
  /\ pc = "ssh_exit" => (closes = 1 /\ client = "closed")
  /\ pc \notin SshPcs \ {"RUN_SSH_COMMANDS"} =>
       /\ client \in {"none", "closed"}
       /\ client = "closed" => closes = 1

\* A command failed after a successful connect, and the function is being
\* left with the client closed once.
C9_Witness ==
  /\ pc = "ssh_exit"
  /\ exc = "SSHException"
  /\ Len(ran) >= 2
  /\ ran[1] = <<"connect">>
  /\ client = "closed"
  /\ closes = 1

\* The host a result of node n carries.
HostOf(n) ==
  IF n.DEVICE_TYPE = "local" THEN LocalHostName
  ELSE IF n.HOST_NAME = NONE THEN "unknown" ELSE n.HOST_NAME

\* is is a strictly increasing sequence of indexes of nodes taken so far.
InInputOrder(is) ==
  /\ \A j \in 1..Len(is) : is[j] \in 1..idx
  /\ \A i, j \in 1..Len(is) : i < j => is[i] < is[j]

\* C10: the lines appended to the log and the entries of all_stats come from
\* the nodes in input order, at most one per node (so no result is written
\* to the sink twice), and each is the result of the node it comes from.
C10_ResultsInInputOrder ==
  /\ Len(logged) = Len(log)
  /\ Len(appended) = Len(all_stats)
  /\ InInputOrder(logged)
  /\ InInputOrder(appended)
  /\ \A j \in 1..Len(log) : log[j].host = HostOf(nodes.items[logged[j]])
  /\ \A j \in 1..Len(all_stats) :
       all_stats[j].host = HostOf(nodes.items[appended[j]])

\* A run of two nodes with different hosts has ended with both results in
\* all_stats and in the log, first node first.
C10_Witness ==
  /\ pc = "done"
  /\ Len(all_stats) = 2
  /\ Len(log) = 2
  /\ all_stats[1].host = HostOf(nodes.items[1])
  /\ all_stats[2].host = HostOf(nodes.items[2])
  /\ all_stats[1].host # all_stats[2].host
  /\ log = all_stats

\* The strategy called for the current node is RUN_SSH_COMMANDS, its connect
\* succeeded and every command of the node's COMMANDS has completed (its
\* exit status was received).
InSshDispatch ==
  /\ invoked # <<>>
  /\ invoked[Len(invoked)] = [node |-> idx, strategy |-> "RUN_SSH_COMMANDS"]
AllCommandsCompleted ==
  /\ InSshDispatch
  /\ Len(ran) = 1 + 2 * Len(Node.COMMANDS)
  /\ ran[1] = <<"connect">>

\* The result of the current node is the last line of the log and the last
\* entry of all_stats.
CurrentNodeRecorded ==
  /\ logged # <<>> /\ logged[Len(logged)] = idx
  /\ appended # <<>> /\ appended[Len(appended)] = idx
  /\ log[Len(log)] = stat
  /\ all_stats[Len(all_stats)] = stat

\* What holds of an ssh node whose connect and commands all completed, up
\* to the point where main has the result.
SshSuccessReturned ==
  /\ pc \in SshPcs => exc = "none"
  /\ pc \in {"ssh_finally", "ssh_exit"} => stats.status = <<"success">>
  /\ pc \in {"save_log", "append", "for"} =>
       stat = [host |-> HostOf(Node), status |-> <<"success">>, metrics |-> <<>>]

\* C11 (as claimed): for an ssh node whose connect succeeded and whose
\* commands all completed, whatever their exit codes, RUN_SSH_COMMANDS
\* returns status success, no exception arrives at main's handler, and by
\* the time main takes the next node the result is in the log and in
\* all_stats.
C11_SshSuccessRecorded ==
  AllCommandsCompleted =>
    /\ SshSuccessReturned
    /\ pc = "for" => CurrentNodeRecorded

\* C11 (amended): as above, except that save_log may raise: then the
\* exception at main's handler is save_log's, not the strategy's, the result
\* is in neither the log nor all_stats, and the notice for the node is
\* printed.
C11_SshSuccessRecordedUnlessSinkFails ==
  AllCommandsCompleted =>
    /\ SshSuccessReturned
    /\ pc = "except" => exc = "OSError"
    /\ pc = "for" =>
         \/ CurrentNodeRecorded
         \/ /\ \A j \in 1..Len(logged) : logged[j] # idx
            /\ \A j \in 1..Len(appended) : appended[j] # idx
            /\ console[Len(console)] = Signal("notice", Node.HOST_NAME)

\* An ssh node whose command ended with exit code 1 has its success result
\* in the log and in all_stats.
C11_Witness ==
  /\ pc = "for"
  /\ AllCommandsCompleted
  /\ \E j \in 1..Len(ran) : Len(ran[j]) = 3 /\ ran[j][3] = 1
  /\ CurrentNodeRecorded
  /\ stat.status = <<"success">>

\* The console signals of the m-th dispatched node: from its running marker
\* up to the next running marker.
IsRunningAt(j) == console[j].kind = "running"
RunningPos == SelectSeq([j \in 1..Len(console) |-> j], IsRunningAt)
Groups ==
  LET R == RunningPos IN
    [m \in 1..Len(R) |->
       SubSeq(console, R[m], IF m < Len(R) THEN R[m + 1] - 1 ELSE Len(console))]
Group(m) == Groups[m]

\* main has left the m-th dispatched node behind.
GroupComplete(m) ==
  m < Len(invoked) \/ pc \in {"for", "classify", "done", "crashed"}

\* The label of a node's running marker.
LabelOf(n) ==
  IF n.DEVICE_TYPE = "local" THEN "Localhost"
  ELSE IF n.HOST_NAME # NONE THEN n.HOST_NAME
  ELSE IF n.DEVICE_TYPE = "ssh" THEN "SSH Node" ELSE "Netmiko Node"

WasLogged(i) == \E j \in 1..Len(logged) : logged[j] = i

\* The shape every dispatched node's signals have: its running marker,
\* then one success or failure marker with the same label, then at most
\* the notice naming the node's HOST_NAME; one group per dispatched node,
\* so a node's signals all come before the next node's running marker.
SignalShape(G) ==
  /\ Len(G) = IF pc \in EntryPcs THEN Len(invoked) - 1 ELSE Len(invoked)
  /\ \A j \in 1..Len(console) :
       console[j].kind \in {"ok", "failed", "notice"} =>
         (j > 1 /\ console[j - 1].kind # "load_error")
  /\ \A m \in 1..Len(G) :
       LET g == G[m]
           n == nodes.items[invoked[m].node]
       IN  /\ g[1] = Signal("running", LabelOf(n))
           /\ Len(g) <= 3
           /\ Len(g) >= 2 => g[2] \in {Signal("ok", LabelOf(n)),
                                       Signal("failed", LabelOf(n))}
           /\ Len(g) = 3 => g[3] = Signal("notice", n.HOST_NAME)
           /\ GroupComplete(m) => Len(g) >= 2

\* C12 (as claimed): every dispatched node's signals have that shape, and
\* the notice is there if and only if the node's marker is the failure
\* marker.
C12_NoticeIffFailureMarker ==
  LET G == Groups IN
    /\ SignalShape(G)
    /\ \A m \in 1..Len(G) :
         GroupComplete(m) => (Len(G[m]) = 3 <=> G[m][2].kind = "failed")

\* C12 (amended): every dispatched node's signals have that shape; the
\* failure marker is always followed by the notice, and the notice is there
\* if and only if the node's marker is the failure marker or the node's
\* save_log raised (success marker, but no line in the log).
C12_NoticeIffNodeNotRecorded ==
  LET G == Groups IN
    /\ SignalShape(G)
    /\ \A m \in 1..Len(G) :
         GroupComplete(m) =>
           /\ G[m][2].kind = "failed" => Len(G[m]) = 3
           /\ G[m][2].kind = "failed" => ~WasLogged(invoked[m].node)
           /\ Len(G[m]) = 3 <=> ~WasLogged(invoked[m].node)

\* Two nodes were dispatched: the first failed (running, failure marker,
\* notice), the second succeeded (running, success marker, no notice).
C12_Witness ==
  /\ pc = "done"
  /\ Len(invoked) = 2
  /\ Len(Groups) = 2
  /\ Len(Group(1)) = 3
  /\ Group(1)[2].kind = "failed"
  /\ Group(1)[3].label = "pi2"
  /\ Len(Group(2)) = 2
  /\ Group(2)[2].kind = "ok"

(* ------------------------------- C13 ----------------------------------- *)
\* The current node is being handled by the managed strategy, or has just
\* been.
InNmDispatch ==
  /\ invoked # <<>>
  /\ invoked[Len(invoked)] = [node |-> idx, strategy |-> "RUN_NETMIKO_CONFIG"]
  /\ pc \notin {"for", "classify", "done", "crashed"}

\* The four remote steps of the managed strategy, in the claimed order.
NmSteps(n) ==
  << <<"connect">>, <<"send_config_set", Get(n, "CONFIG_COMMANDS", <<>>)>>,
     <<"save_config">>, <<"disconnect">> >>

IsPrefix(s, t) == Len(s) <= Len(t) /\ s = SubSeq(t, 1, Len(s))

\* The steps performed so far are an initial part of the fixed order;
\* success is set only after all four; once a step has raised fewer than
\* four were performed, and the strategy leaves with a "fail:" status.
NmStepsInOrder ==
  (InNmDispatch /\ pc # "RUN_NETMIKO_CONFIG") =>
    /\ IsPrefix(ran, NmSteps(Node))
    /\ pc = "nm_success" => ran = NmSteps(Node)
    /\ stats.status = Success => ran = NmSteps(Node)
    /\ stats.status # Success =>
         (stats.status = <<>> \/ BeginsWithFail(stats.status))
    /\ exc = "NetmikoException" =>
         /\ Len(ran) < 4
         /\ pc \in {"nm_except", "nm_exit", "except"}
         /\ pc # "nm_except" => BeginsWithFail(stats.status)

\* C13: RUN_NETMIKO_CONFIG performs connect, send_config_set of the whole
\* CONFIG_COMMANDS list, save_config, disconnect in that order and sets
\* status success only after all four; when a step raises no later step is
\* performed, status becomes "fail: ..." and the exception is re-raised to
\* main's handler.
C13_NetmikoFixedOrder ==
  /\ []NmStepsInOrder
  /\ [][(pc \in NmPcs /\ exc = "NetmikoException") =>
          (/\ ran' = ran
           /\ exc' = exc
           /\ pc = "nm_except" => pc' = "nm_exit"
           /\ pc = "nm_exit" => pc' = "except")]_vars

\* save_config raised after connect and send_config_set: the strategy is
\* about to leave with the fail status and the exception.
C13_Witness ==
  /\ pc = "nm_exit"
  /\ exc = "NetmikoException"
  /\ ran = SubSeq(NmSteps(Node), 1, 2)
  /\ Node.CONFIG_COMMANDS # <<>>
  /\ BeginsWithFail(stats.status)

(* ------------------------------- C14 ----------------------------------- *)
\* What the j-th remote call of an ssh dispatch over cmds has to be: the
\* connect, then for each command in list order its start followed by the
\* receipt of its exit status.
IsSshStep(cmds, j, call) ==
  IF j = 1 THEN call = <<"connect">>
  ELSE IF j % 2 = 0 THEN call = <<"exec", cmds[j \div 2]>>
  ELSE \E code \in ExitCodes : call = <<"exit", cmds[(j - 1) \div 2], code>>

SshCommandsInListOrder ==
  (InSshDispatch /\ pc \notin {"for", "classify", "done", "crashed",
                                "RUN_SSH_COMMANDS"}) =>
    /\ Len(ran) <= 1 + 2 * Len(Node.COMMANDS)
    /\ \A j \in 1..Len(ran) : IsSshStep(Node.COMMANDS, j, ran[j])
    /\ stats.status = Success => Len(ran) = 1 + 2 * Len(Node.COMMANDS)

\* C14: RUN_SSH_COMMANDS executes COMMANDS strictly in list order, each
\* command started only after the exit status of the one before it was
\* received; once connect or a command has raised, no command is executed
\* any more.
C14_SshCommandsSequential ==
  /\ []SshCommandsInListOrder
  /\ [][(pc \in SshPcs /\ exc # "none") =>
          (ran' = ran /\ exc' = exc /\ pc' # "ssh_cmd" /\ pc' # "ssh_wait")]_vars

\* The second of two commands raised after the first completed: the
\* strategy leaves with the exception and only the first command ran.
C14_Witness ==
  /\ pc = "ssh_exit"
  /\ exc = "SSHException"
  /\ Len(Node.COMMANDS) = 2
  /\ Len(ran) = 3
  /\ ran[2] = <<"exec", Node.COMMANDS[1]>>

(* ------------------------------- C15 ----------------------------------- *)
\* The record a node's strategy returns, written out as a function of the
\* node and of the outcomes of its own calls alone (the shell outcomes for
\* a local node; a remote strategy that returns has no other outcome).
OwnResult(n) ==
  IF n.DEVICE_TYPE = "local"
    THEN [host |-> LocalHostName, status |-> Success,
          metrics |-> [key \in CatalogKeys |-> MetricValue(localEnv[key])]]
    ELSE [host |-> Get(n, "HOST_NAME", "unknown"), status |-> Success,
          metrics |-> <<>>]

\* What each node added to the log and to all_stats is its own record, at
\* most once, and the record handed to main is the current node's own.
ContributionIsOwn ==
  /\ \A j \in 1..Len(log) : log[j] = OwnResult(nodes.items[logged[j]])
  /\ \A j \in 1..Len(all_stats) :
       all_stats[j] = OwnResult(nodes.items[appended[j]])
  /\ \A i, j \in 1..Len(logged) : logged[i] = logged[j] => i = j
  /\ \A i, j \in 1..Len(appended) : appended[i] = appended[j] => i = j
  /\ pc \in {"save_log", "append"} => stat = OwnResult(Node)

\* Whether a node gets its dispatch does not depend on the other nodes:
\* when the run is over every mapping of the list was handed to a strategy.
EveryMappingDispatched ==
  pc \in {"done", "crashed"} =>
    \A i \in 1..Len(nodes.items) :
      nodes.items[i].isMap => \E m \in 1..Len(invoked) : invoked[m].node = i

\* C15 (as claimed): node i's result record and its contribution to the log
\* and to all_stats are determined by node i and the outcomes of its own
\* calls, whatever the other entries of the list are and however they
\* succeed or fail.
C15_NodesDoNotInterfere ==
  /\ ContributionIsOwn
  /\ EveryMappingDispatched

(* ------------------------------- C16 ----------------------------------- *)
\* The dispatched nodes whose strategy returned normally (success marker)
\* and whose save_log did not raise (no notice after the marker).
ReturnedAndSaved ==
  LET G == Groups IN
    { m \in 1..Len(G) : GroupComplete(m) /\ Len(G[m]) = 2 /\ G[m][2].kind = "ok" }

\* C16: at every node boundary of main the lines appended to the log are
\* all_stats entry for entry, each with status exactly "success", as many
\* as there are nodes so far whose strategy returned normally and whose
\* save_log succeeded (and they are those nodes); with an empty node list
\* nothing is ever appended.
C16_LogMatchesAllStats ==
  /\ pc \in {"for", "done"} =>
       /\ log = all_stats
       /\ logged = appended
       /\ \A j \in 1..Len(log) : log[j].status = Success
       /\ Len(log) = Cardinality(ReturnedAndSaved)
       /\ \A m \in 1..Len(invoked) :
            m \in ReturnedAndSaved <=> WasLogged(invoked[m].node)
  /\ (pc # "load" /\ nodes.items = <<>>) => (log = <<>> /\ all_stats = <<>>)

\* A boundary after two nodes: the first one's strategy raised, the second
\* one's returned and was saved.
C16_Witness ==
  /\ pc = "for"
  /\ Len(invoked) = 2
  /\ logged = <<2>>
  /\ Len(log) = 1
  /\ Groups[1][2].kind = "failed"

(* ------------------------------- C17 ----------------------------------- *)
\* C17 (as claimed): when main moves on from a node (back at the head of
\* the loop, or past it), no remote session opened during that node's
\* dispatch is still open, be it the ssh client or the managed connection,
\* whether the strategy returned or a step after the connect raised.
C17_NoSessionLeftOpen ==
  pc \in {"for", "done"} => (client # "connected" /\ conn # "open")

====
